---- MODULE Spec2Model ----
(***************************************************************************)
(* MULTICOLVARDENS (src/multicolvar/MultiColvarDensity.cpp): the action    *)
(* that projects the values of a multicolvar onto a grid, and the handles   *)
(* of the PLUMED wrapper as regtest/basic/rt-make-wrappers/main.cpp drives  *)
(* them.                                                                    *)
(*                                                                         *)
(* Lengths are integers counting 10^-3 length units ("ticks"): 2000 is     *)
(* 2.0.  Tools.h's epsilon (machine epsilon, 2.2e-16) lies far below one   *)
(* tick, so on tick-valued quantities fabs(d)<epsilon is d=0 and           *)
(* fabs(d)>epsilon is d#0.                                                 *)
(***************************************************************************)
EXTENDS Integers, Sequences, FiniteSets, TLC

\* ------------------------------------------------------------------ bounds
\* last step at which the driver still calls update()
MaxStep == 2
\* mycolv->getFullNumberOfTasks(): size of the task list built at line 267
NumTasks == 2
\* handles a client of the wrapper holds at once, objects alive at once, and
\* gcreate calls in a run
MaxHandles == 3
MaxObjects == 2
MaxGlobalCycles == 2

\* ------------------------------------------------------------------ inputs
\* values of the DIR keyword: the seven accepted strings and a rejected one
DirStrings == {"x", "y", "z", "xy", "xz", "yz", "xyz", "yx"}

\* values of XLOWER/XUPPER, YLOWER/... (ticks); 0 is also what line 220 leaves
\* when the keyword is absent
CVals == {0, 1000}

\* values given to NBINS and SPACING: nothing, one entry, two, three entries
BinLists == {<<>>, <<2>>, <<2, 2>>, <<2, 2, 2>>}
SpacingLists == {<<>>, <<1000>>, <<1000, 1000>>, <<1000, 1000, 1000>>}

\* simulation cells: the diagonal of the box matrix and whether Pbc reports
\* the cell orthorhombic (an unset, all-zero box counts as orthorhombic)
Boxes ==
  { [d |-> <<2000, 2000, 2000>>, ortho |-> TRUE],
    [d |-> <<4000, 4000, 4000>>, ortho |-> TRUE],
    [d |-> <<2000, 2000, 2000>>, ortho |-> FALSE],
    [d |-> <<1000, 1000, 1000>>, ortho |-> TRUE],
    [d |-> <<2000004, 2000004, 2000004>>, ortho |-> TRUE],
    [d |-> <<0, 0, 0>>, ortho |-> TRUE] }

\* mycolv->getCentralAtomPos: the central atom of task k (ticks, x y z); the
\* atoms keep their places, the origin atom and the number of stored values
\* change from frame to frame
centralAtomPos(k) == << 500 * k - 750, 750 - 500 * k, 250 * k >>

\* positions of the ORIGIN atom
Origins == { <<500, 500, 500>> }

\* the keyword line handed to the constructor.  REDUCED/LOWER/UPPER are
\* indexed by axis+1 (x=1,y=2,z=3); keywords of an axis that DIR does not name,
\* or bounds without the REDUCED flag, are left over for checkRead() (line 282)
\* and are not part of the input lines modelled here.
ValidDirs == {"x", "y", "z", "xy", "xz", "yz", "xyz"}

\* a parser that stores the axes of "xz" with z first
AxesOf_zFirst(dir) ==
  CASE dir = "x" -> <<0>>
    [] dir = "y" -> <<1>>
    [] dir = "z" -> <<2>>
    [] dir = "xy" -> <<0, 1>>
    [] dir = "xz" -> <<2, 0>>
    [] dir = "yz" -> <<1, 2>>
    [] dir = "xyz" -> <<0, 1, 2>>
    [] OTHER -> <<>>

\* lines 187-208: the axes stored for a direction string, none for any other string
AxesOf(dir) ==
  CASE dir = "x" -> <<0>>
    [] dir = "y" -> <<1>>
    [] dir = "z" -> <<2>>
    [] dir = "xy" -> <<0, 1>>
    [] dir = "xz" -> <<0, 2>>
    [] dir = "yz" -> <<1, 2>>
    [] dir = "xyz" -> <<0, 1, 2>>
    [] OTHER -> <<>>

Range(s) == { s[i] : i \in 1..Len(s) }

AllConfigs ==
  { c \in [ DIR : DirStrings, FRACTIONAL : BOOLEAN, NBINS : BinLists,
            SPACING : SpacingLists,
            REDUCED : [1..3 -> BOOLEAN],
            LOWER : [1..3 -> CVals], UPPER : [1..3 -> CVals],
            NOMEMORY : BOOLEAN,
            density : BOOLEAN ] :
      \A a \in 1..3 :
        /\ (a - 1) \notin Range(AxesOf(c.DIR)) => ~c.REDUCED[a]
        /\ ~c.REDUCED[a] => (c.LOWER[a] = 0 /\ c.UPPER[a] = 0) }

\* the input lines of the runs: one axis, two axes, a rejected direction; the
\* bin and spacing lists empty or with one entry per axis, and not both given;
\* no confined range written upper before lower; the cumulative policy (the
\* memoryless runs are those of SpecMem)
RunDirs == {"x", "yz", "yx"}

Configs ==
  { c \in AllConfigs :
      /\ c.DIR \in RunDirs
      /\ ~c.NOMEMORY
      /\ Len(c.NBINS) \in {0, Len(AxesOf(c.DIR))}
      /\ Len(c.SPACING) \in {0, Len(AxesOf(c.DIR))}
      /\ Len(c.NBINS) = 0 \/ Len(c.SPACING) = 0
      /\ \A a \in 1..3 : c.LOWER[a] <= c.UPPER[a] }

\* ------------------------------------------------------------------- state
VARIABLES
  cfg,          \* the input line (ActionOptions) and mycolv->isDensity()
  phase,        \* "parsed" | "constructed" | "failed" (setup error) | "aborted" (run error)
  errmsg,       \* text of the error() that stopped setup or the run
  nomemory, fractional, single_run, directions, nbins, gspacing, confined, cmin, cmax,
  origin, taskFlags,
  mygrid,       \* the grid vessel: created, wascleared, bounds_set, str_min, str_max, nbin, norm, data
  step,         \* getStep() of the next update cycle
  box,          \* mycolv->getBox() / getPbc() at the latest update cycle
  outcome,      \* what the latest update cycle did: "none" | "skipped" | "processed" | "failed"
  processed,    \* number of update cycles that ran to the end of update()
  resetAfterBind, \* a reset was signalled after the first bind
  prev,         \* the vessel as the latest update cycle found it
  boundBox,     \* the cell of the update cycle that last bound the grid
  tally,        \* per cell, the contributions of every task of every frame processed
                \* since the latest reset signal (since the start if there was none)
  taskOrder,    \* the order in which the tasks of the latest processed frame were merged
  rebound,      \* the latest update cycle passed line 313 (clear and setBounds)
  resetPending, \* a reset was signalled since the latest processed frame
  resetSeen,    \* resetPending as the latest update cycle found it
  lastRead,     \* what the latest read since the latest update cycle returned
  cycle,        \* where update() stands in the frame it is running, the inputs of that
                \* frame, and what it has done in it so far
  plumedObjs,   \* wrapper: per object, whether it is alive and its use count
  handles,      \* wrapper: per handle slot, the object it refers to (0: none) and how it was made
  ginitialized, \* wrapper: the global instance exists
  gcreates, gfinalizes, \* wrapper: calls of gcreate and gfinalize so far
  lastOp        \* wrapper: the latest call, its interface and what it returned

fields == <<nomemory, fractional, single_run, directions, nbins, gspacing, confined, cmin, cmax>>
history == <<tally, taskOrder, rebound, resetPending, resetSeen, cycle>>
wrapper == <<plumedObjs, handles, ginitialized, gcreates, gfinalizes, lastOp>>
vars == <<cfg, phase, errmsg, fields, origin, taskFlags, mygrid, step, box, outcome,
          processed, resetAfterBind, prev, boundBox, history, lastRead, wrapper>>

\* ------------------------------------------------------------- constructor
\* fabs(d) < epsilon and fabs(d) > epsilon on tick-valued d (lines 222, 318)
Abs(d) == IF d < 0 THEN -d ELSE d
LessThanEpsilon(d) == Abs(d) = 0
MoreThanEpsilon(d) == Abs(d) # 0

\* a setup that only asks whether both lists are empty
binsMissing_bothEmpty(nb, gs, dirs) == Len(nb) = 0 /\ Len(gs) = 0

\* line 213: neither list has one entry per direction
binsMissing(nb, gs, dirs) == Len(nb) # Len(dirs) /\ Len(gs) # Len(dirs)

\* a setup that forgets the FRACTIONAL test
reducedWithFractional_unchecked(frac, tflag) == FALSE

\* lines 221, 229, 237: a confined axis under FRACTIONAL
reducedWithFractional(frac, tflag) == tflag /\ frac

\* a setup that forgets the range test
rangeMakesNoSense_unchecked(tflag, lo, hi) == FALSE

\* lines 222, 230, 238: the confined range is empty
rangeMakesNoSense(tflag, lo, hi) == tflag /\ LessThanEpsilon(lo - hi)

\* lines 216-242: the first error of the loop over the directions, "" if none
RECURSIVE confineError(_, _, _)
confineError(c, dirs, i) ==
  IF i > Len(dirs) THEN ""
  ELSE LET a == dirs[i] + 1 IN
       IF reducedWithFractional(c.FRACTIONAL, c.REDUCED[a])
         THEN "REDUCED is incompatible with FRACTIONAL"
       ELSE IF rangeMakesNoSense(c.REDUCED[a], c.LOWER[a], c.UPPER[a])
         THEN "range makes no sense"
       ELSE confineError(c, dirs, i + 1)

\* lines 185-242: the error that stops the constructor, "" if it completes
setupError(c) ==
  IF c.DIR \notin ValidDirs THEN "is not valid gradient direction"
  ELSE IF binsMissing(c.NBINS, c.SPACING, AxesOf(c.DIR)) THEN "NBINS or SPACING must be set"
  ELSE confineError(c, AxesOf(c.DIR), 1)

\* the vessel before lines 268-274 create it
NoGrid ==
  [ created |-> FALSE, nomemory |-> FALSE, wascleared |-> FALSE, bounds_set |-> FALSE,
    periodic |-> <<>>,
    str_min |-> <<>>, str_max |-> <<>>, nbin |-> <<>>, norm |-> 0, data |-> <<>> ]

\* a setup that asks for no periodic axis at all
pbcFlags_allFalse(conf) == [ i \in 1..Len(conf) |-> FALSE ]

\* a setup that writes the confinement flags themselves into PBC=
pbcFlags_asConfined(conf) == [ i \in 1..Len(conf) |-> conf[i] ]

\* lines 244-250: PBC=T for a free axis, PBC=F for a confined one
pbcFlags(conf) == [ i \in 1..Len(conf) |-> ~conf[i] ]

\* lines 261-262 and 268-274: a new vessel with the memory policy of the input
\* line, bounds not set, reporting wasreset()
NewGrid(conf, nomem) ==
  [ created |-> TRUE, nomemory |-> nomem, wascleared |-> TRUE, bounds_set |-> FALSE,
    periodic |-> pbcFlags(conf),
    str_min |-> <<>>, str_max |-> <<>>, nbin |-> <<>>, norm |-> 0, data |-> <<>> ]

\* nothing read yet
NoRead == [ cell |-> <<>>, value |-> 0 ]

\* the wrapper before any call: no object, no handle, no global instance
NoObject == [ alive |-> FALSE, refs |-> 0 ]
NoHandle == [ obj |-> 0, made |-> "none" ]
NoOp == [ name |-> "none", lang |-> "none", result |-> 0 ]

WrapperIdle ==
  /\ plumedObjs = [ o \in 1..MaxObjects |-> NoObject ]
  /\ handles = [ h \in 1..MaxHandles |-> NoHandle ]
  /\ ginitialized = FALSE
  /\ gcreates = 0
  /\ gfinalizes = 0
  /\ lastOp = NoOp

\* update() is not running and has run no frame yet
Idle ==
  [ at |-> "idle", o |-> <<0, 0, 0>>, n |-> 0, next |-> 0, was |-> <<>>,
    from |-> <<0, 0, 0>>, log |-> <<>>, merged |-> <<>> ]

\* the action before its constructor ran
Unconstructed ==
  /\ phase = "parsed"
  /\ errmsg = ""
  /\ nomemory = FALSE
  /\ fractional = FALSE
  /\ single_run = TRUE
  /\ directions = <<>>
  /\ nbins = <<>>
  /\ gspacing = <<>>
  /\ confined = <<>>
  /\ cmin = <<>>
  /\ cmax = <<>>
  /\ origin = <<0, 0, 0>>
  /\ taskFlags = <<>>
  /\ mygrid = NoGrid
  /\ step = 0
  /\ box = [d |-> <<0, 0, 0>>, ortho |-> TRUE]
  /\ outcome = "none"
  /\ processed = 0
  /\ resetAfterBind = FALSE
  /\ prev = NoGrid
  /\ boundBox = [d |-> <<0, 0, 0>>, ortho |-> TRUE]
  /\ tally = <<>>
  /\ taskOrder = <<>>
  /\ rebound = FALSE
  /\ resetPending = FALSE
  /\ resetSeen = FALSE
  /\ lastRead = NoRead
  /\ cycle = Idle

Init ==
  /\ cfg \in Configs
  /\ Unconstructed
  /\ WrapperIdle

\* MultiColvarDensity::MultiColvarDensity
Construct ==
  /\ phase = "parsed"
  /\ LET dirs == AxesOf(cfg.DIR)
         err == setupError(cfg)
     IN IF err # ""
          THEN /\ phase' = "failed"
               /\ errmsg' = err
               /\ UNCHANGED <<fields, taskFlags, mygrid>>
          ELSE /\ phase' = "constructed"
               /\ errmsg' = ""
               /\ nomemory' = cfg.NOMEMORY
               /\ fractional' = cfg.FRACTIONAL
               /\ single_run' = TRUE
               /\ directions' = dirs
               /\ nbins' = cfg.NBINS
               /\ gspacing' = cfg.SPACING
               /\ confined' = [ i \in 1..Len(dirs) |-> cfg.REDUCED[dirs[i] + 1] ]
               /\ cmin' = [ i \in 1..Len(dirs) |-> cfg.LOWER[dirs[i] + 1] ]
               /\ cmax' = [ i \in 1..Len(dirs) |-> cfg.UPPER[dirs[i] + 1] ]
               /\ taskFlags' = [ i \in 1..NumTasks |-> 0 ]
               /\ mygrid' = NewGrid([ i \in 1..Len(dirs) |-> cfg.REDUCED[dirs[i] + 1] ],
                                    cfg.NOMEMORY)
  /\ UNCHANGED <<cfg, origin, step, box, outcome, processed, resetAfterBind, prev, boundBox,
                 history, lastRead, wrapper>>

\* setAnalysisStride: the analysis action that reads the grid announces, before
\* the run starts, whether it works on the whole trajectory
setAnalysisStride ==
  /\ phase = "constructed"
  /\ outcome = "none"
  /\ \E use_all \in BOOLEAN : single_run' = use_all
  /\ UNCHANGED <<cfg, phase, errmsg, nomemory, fractional, directions, nbins, gspacing,
                 confined, cmin, cmax, origin, taskFlags, mygrid, step, box, outcome,
                 processed, resetAfterBind, prev, boundBox, history, lastRead, wrapper>>

\* ------------------------------------------------------------ Tools, Pbc
\* Tools::convert(double, std::string&) writes the number through an
\* ostringstream at its default precision, which keeps SigDigits significant
\* digits; the text is later read back exactly.  The value a text denotes
\* stands for the text.  (No input of the model falls halfway between two
\* texts.)
SigDigits == 6

RECURSIVE scaleOf(_)
scaleOf(a) == IF a < 10^SigDigits THEN 1 ELSE 10 * scaleOf(a \div 10)

convertToString(v) ==
  LET a == Abs(v)
      s == scaleOf(a)
      r == ((a + (s \div 2)) \div s) * s
  IN IF v < 0 THEN -r ELSE r

\* Tools::convert(const std::string&, double&)
convertToDouble(str) == str

\* product of two tick-valued numbers, in ticks
Mul(a, b) == (a * b) \div 1000

\* Pbc::distance: minimum image along each cell vector; no wrapping for an unset box
pbcDistance(b, o, p) ==
  [ k \in 1..3 |->
      LET d == p[k] - o[k]
          L == b.d[k]
      IN IF L = 0 THEN d ELSE d - L * ((2 * d + L) \div (2 * L)) ]

\* Pbc::realToScaled: the displacement in units of the cell vectors
realToScaled(b, apos) ==
  [ k \in 1..3 |-> IF b.d[k] = 0 THEN 0 ELSE (apos[k] * 1000) \div b.d[k] ]

\* ------------------------------------------------------------ the vessel
\* GridVessel::wasreset
wasreset(g) == g.wascleared

\* GridVessel::clear: zero the cells and the normalisation
clear(g) == [ g EXCEPT !.data = <<>>, !.norm = 0 ]

\* a range the vessel refuses to bind
degenerateRange(smin, smax) ==
  \E i \in 1..Len(smin) : LessThanEpsilon(convertToDouble(smax[i]) - convertToDouble(smin[i]))

\* number of bins of axis i: NBINS when it has one entry per axis, else from SPACING
binCount(smin, smax, nb, gs, i) ==
  IF Len(nb) = Len(smin) THEN nb[i]
  ELSE ((convertToDouble(smax[i]) - convertToDouble(smin[i])) \div gs[i]) + 1

\* GridVessel::setBounds: fix the layout and take the reset signal back
setBounds(g, smin, smax, nb, gs) ==
  [ g EXCEPT !.str_min = smin, !.str_max = smax,
             !.nbin = [ i \in 1..Len(smin) |-> binCount(smin, smax, nb, gs, i) ],
             !.bounds_set = TRUE, !.wascleared = FALSE ]

\* GridVessel::getMax
getMax(g) == g.str_max

\* floor(a*n/d) for d > 0, by long division on the thousands of a so that no
\* intermediate product leaves the 32-bit integers of the checker
MulDiv(a, n, d) ==
  LET hi1 == (a \div 1000) * n
      rest == (hi1 % d) * 1000 + (a % 1000) * n
  IN (hi1 \div d) * 1000 + rest \div d

\* the bin of coordinate x along axis i, before any wrapping
binOf(g, x, i) ==
  LET lo == convertToDouble(g.str_min[i])
      hi == convertToDouble(g.str_max[i])
  IN MulDiv(x - lo, g.nbin[i], hi - lo)

\* bin b of axis i as a cell index: wrapped on a periodic axis, -1 when it leaves
\* the grid on a non-periodic one
wrapBin(g, b, i) ==
  IF g.periodic[i] THEN b % g.nbin[i]
  ELSE IF b \in 0..(g.nbin[i] - 1) THEN b ELSE -1

\* the cell a point falls into, <<>> when it lies outside a non-periodic axis
cellOf(g, point) ==
  IF \E i \in 1..Len(point) : wrapBin(g, binOf(g, point[i], i), i) = -1
    THEN <<>>
    ELSE [ i \in 1..Len(point) |-> wrapBin(g, binOf(g, point[i], i), i) ]

\* the kernel: its support reaches one bin to either side along every axis; per
\* axis it gives weight 2 to the bin of the point and 1 to each neighbour
kernelTotal(dim) == 4 ^ dim

\* the weight the kernel around coordinate x puts on index j of axis i
axisWeight(g, x, i, j) ==
  LET b == binOf(g, x, i)
  IN (IF wrapBin(g, b - 1, i) = j THEN 1 ELSE 0)
     + (IF wrapBin(g, b, i) = j THEN 2 ELSE 0)
     + (IF wrapBin(g, b + 1, i) = j THEN 1 ELSE 0)

\* the weight a point at `point` puts into cell c: the product over the axes
RECURSIVE depositUpTo(_, _, _, _)
depositUpTo(g, point, c, i) ==
  IF i = 0 THEN 1 ELSE axisWeight(g, point[i], i, c[i]) * depositUpTo(g, point, c, i - 1)

depositInto(g, point, c) == depositUpTo(g, point, c, Len(point))

\* the cells within the support of the kernel around `point`
cellsNear(g, point) ==
  LET near(i) == { wrapBin(g, binOf(g, point[i], i) + d, i) : d \in {-1, 0, 1} } \ {-1}
  IN IF Len(point) = 1 THEN { <<a>> : a \in near(1) }
     ELSE IF Len(point) = 2 THEN { <<a, b>> : a \in near(1), b \in near(2) }
     ELSE { <<a, b, c>> : a \in near(1), b \in near(2), c \in near(3) }

\* HistogramOnGrid::calculate: spread value*weight of one task over the cells
\* near its point
accumulate(g, myvals) ==
  LET n == Len(myvals)
      point == [ i \in 1..(n - 2) |-> myvals[i + 1] ]
      w == myvals[1] * myvals[n]
      near == cellsNear(g, point)
  IN [ g EXCEPT !.data = [ c \in (DOMAIN g.data) \cup near |->
                             (IF c \in DOMAIN g.data THEN g.data[c] ELSE 0)
                             + w * depositInto(g, point, c) ] ]

\* ----------------------------------------------------------------- update
\* stash->getNumberOfStoredValues() in a frame; every stored value has value
\* cvals[0]=1 and weight cvals[1]=1
StoredCounts == {0, 1, NumTasks}

\* the test of line 292 without its negation
skipUpdate_singleRun(sr, st) == sr /\ st = 0

\* line 292
skipUpdate(sr, st) == ~sr /\ st = 0

\* an update that binds the grid on every frame
needsBind_always(g) == TRUE

\* an update that binds the grid once and ignores later reset signals
needsBind_onlyFirst(g) == ~g.bounds_set

\* line 294
needsBind(g) == wasreset(g)

\* the texts of the error() calls of lines 300 and 318, and of the vessel's refusal
NonOrthoError == "non-orthorhombic cells don't work"
BoxSizeError == "box size should be fixed.  Use FRACTIONAL"
DegenerateError == "degenerate range"

\* lines 298-301
nonOrthoRejected(frac, b) == ~frac /\ ~b.ortho

\* lines 295-311: the range of axis i before it is written as text
lowerOf(frac, conf, lo, dirs, b, i) ==
  IF frac THEN -500
  ELSE IF ~conf[i] THEN Mul(-500, b.d[dirs[i] + 1]) ELSE lo[i]

upperOf(frac, conf, hi, dirs, b, i) ==
  IF frac THEN 500
  ELSE IF ~conf[i] THEN Mul(500, b.d[dirs[i] + 1]) ELSE hi[i]

\* line 312
gminOf(b) ==
  [ i \in 1..Len(directions) |->
      convertToString(lowerOf(fractional, confined, cmin, directions, b, i)) ]

gmaxOf(b) ==
  [ i \in 1..Len(directions) |->
      convertToString(upperOf(fractional, confined, cmax, directions, b, i)) ]

\* lines 316-319: the axes on which the bound grid and the box disagree
boxCheckFails(g, dirs, b, i) ==
  MoreThanEpsilon(2 * convertToDouble(getMax(g)[i]) - b.d[dirs[i] + 1])

boxSizeChanged(g, dirs, b) == \E i \in 1..Len(dirs) : boxCheckFails(g, dirs, b, i)

\* a loop that stops one stored value short
activeFlags_dropLast(n) == [ i \in 1..NumTasks |-> IF i < n THEN 1 ELSE 0 ]

\* lines 322-323
activeFlags(n) == [ i \in 1..NumTasks |-> IF i <= n THEN 1 ELSE 0 ]

\* a normalisation that is set to one instead of raised by one
normAfter_setToOne(dens, g) == IF dens THEN 1 ELSE g.norm

\* a normalisation raised by one in either mode
normAfter_bothModes(dens, g) == 1 + g.norm

\* line 327
normAfter(dens, g) == IF dens THEN 1 + g.norm ELSE g.norm

\* lines 287-289
getNumberOfQuantities == Len(directions) + 2

\* lines 331-338: the values task `current` hands to the vessel
performTask(b, o, current) ==
  LET apos == pbcDistance(b, o, centralAtomPos(current))
      fpos == IF fractional THEN realToScaled(b, apos) ELSE apos
  IN <<1>> \o [ j \in 1..Len(directions) |-> fpos[directions[j] + 1] ] \o <<1>>

\* the orders in which the n active tasks of a frame can reach the vessel;
\* update() runs over the task list in index order
TaskIndexOrder(n) == [ i \in 1..n |-> i ]
IndexOrder == [ n \in 0..NumTasks |-> { TaskIndexOrder(n) } ]
AnyOrder == [ n \in 0..NumTasks |-> Permutations(1..n) ]

\* a merge in which every task adds to the grid as the frame found it and the
\* last one to finish overwrites the others
RECURSIVE runAllTasks_lostUpdate(_, _, _, _, _, _)
runAllTasks_lostUpdate(g, flags, b, o, ord, i) ==
  LET act == { k \in 1..Len(ord) : flags[ord[k]] = 1 }
  IN IF act = {} THEN g
     ELSE accumulate(g, performTask(b, o, ord[CHOOSE k \in act : \A m \in act : m <= k]))

\* line 328: every active task, merged into the vessel, taken in the order ord
RECURSIVE runAllTasks(_, _, _, _, _, _)
runAllTasks(g, flags, b, o, ord, i) ==
  IF i > Len(ord) THEN g
  ELSE IF flags[ord[i]] = 1
    THEN runAllTasks(accumulate(g, performTask(b, o, ord[i])), flags, b, o, ord, i + 1)
    ELSE runAllTasks(g, flags, b, o, ord, i + 1)

\* lines 321-328 on a grid g that passed lines 294-320
frameOn(g, b, o, n, ord) ==
  runAllTasks([ g EXCEPT !.norm = normAfter(cfg.density, g) ], activeFlags(n), b, o, ord, 1)

\* a rebind that sets the bounds and keeps what the grid holds
rebind_keepData(g, b) == setBounds(g, gminOf(b), gmaxOf(b), nbins, gspacing)

\* line 313: clear the grid, then bind it to the ranges of the frame
rebind(g, b) == setBounds(clear(g), gminOf(b), gmaxOf(b), nbins, gspacing)

\* the points and the value*weight of the first n tasks of a frame
RECURSIVE storedPoints(_, _, _)
storedPoints(b, o, n) ==
  IF n = 0 THEN <<>>
  ELSE LET myvals == performTask(b, o, n)
       IN Append(storedPoints(b, o, n - 1),
                 [ point |-> SubSeq(myvals, 2, Len(myvals) - 1),
                   w |-> myvals[1] * myvals[Len(myvals)] ])

\* what the first k of these points put into cell c of a grid laid out as g,
\* counted point by point
RECURSIVE frameDeposit(_, _, _, _)
frameDeposit(g, pts, k, c) ==
  IF k = 0 THEN 0
  ELSE pts[k].w * depositInto(g, pts[k].point, c) + frameDeposit(g, pts, k - 1, c)

\* the tally after a frame with n stored values was processed on the layout of g
tallyAfter(t, g, b, o, n) ==
  LET pts == storedPoints(b, o, n)
      touched == UNION { cellsNear(g, pts[k].point) : k \in 1..n }
  IN [ c \in (DOMAIN t) \cup touched |->
         (IF c \in DOMAIN t THEN t[c] ELSE 0) + frameDeposit(g, pts, n, c) ]

Fail(msg, g) ==
  /\ phase' = "aborted"
  /\ errmsg' = msg
  /\ outcome' = "failed"
  /\ mygrid' = g
  /\ rebound' = FALSE
  /\ UNCHANGED <<origin, taskFlags, processed, tally, taskOrder, resetPending>>

Done(g, b, o, n, ord, bound) ==
  /\ outcome' = "processed"
  /\ mygrid' = g
  /\ origin' = o
  /\ taskFlags' = activeFlags(n)
  /\ processed' = processed + 1
  /\ tally' = tallyAfter(tally, g, b, o, n)
  /\ taskOrder' = ord
  /\ rebound' = bound
  /\ resetPending' = FALSE
  /\ UNCHANGED <<phase, errmsg>>

\* MultiColvarDensity::update, called once per step with the cell, the origin
\* atom and the stored values of that step; the cell is one of `boxes`, the
\* tasks of the frame reach the vessel in one of `orders`
updateWith(boxes, orders) ==
  /\ phase = "constructed"
  /\ step <= MaxStep
  /\ \E b \in boxes, o \in Origins, n \in StoredCounts : \E ord \in orders[n] :
       /\ box' = b
       /\ step' = step + 1
       /\ prev' = mygrid
       /\ resetSeen' = resetPending
       /\ IF skipUpdate(single_run, step)
            THEN /\ outcome' = "skipped"
                 /\ rebound' = FALSE
                 /\ UNCHANGED <<phase, errmsg, origin, taskFlags, mygrid, processed, tally,
                                taskOrder, resetPending>>
          ELSE IF needsBind(mygrid)
            THEN IF nonOrthoRejected(fractional, b)
                   THEN Fail(NonOrthoError, mygrid)
                 ELSE IF degenerateRange(gminOf(b), gmaxOf(b))
                   THEN Fail(DegenerateError, clear(mygrid))
                 ELSE Done(frameOn(rebind(mygrid, b), b, o, n, ord), b, o, n, ord, TRUE)
          ELSE IF boxSizeChanged(mygrid, directions, b)
            THEN Fail(BoxSizeError, mygrid)
          ELSE Done(frameOn(mygrid, b, o, n, ord), b, o, n, ord, FALSE)
       /\ boundBox' = IF ~skipUpdate(single_run, step) /\ needsBind(mygrid)
                         /\ ~nonOrthoRejected(fractional, b)
                         /\ ~degenerateRange(gminOf(b), gmaxOf(b))
                       THEN b ELSE boundBox
  /\ lastRead' = NoRead
  /\ UNCHANGED <<cfg, fields, resetAfterBind, cycle, wrapper>>

\* update() as the code runs it: the task list in index order
update == updateWith(Boxes, IndexOrder)

\* update() with the tasks of the frame finishing in any order, in a cell of
\* one or two length units
MemBoxes == { b \in Boxes : b.ortho /\ b.d[1] \in {1000, 2000} }

updateAnyOrder == updateWith(MemBoxes, AnyOrder)

\* the value store reports that it was cleared (GridVessel::reset); under the
\* memoryless policy the analysis action that read the grid also signals it
reset ==
  /\ phase = "constructed"
  /\ cycle.at = "idle"
  /\ ~mygrid.wascleared
  /\ mygrid' = [ mygrid EXCEPT !.wascleared = TRUE ]
  /\ resetAfterBind' = (resetAfterBind \/ mygrid.bounds_set)
  /\ resetPending' = TRUE
  /\ tally' = <<>>
  /\ UNCHANGED <<cfg, phase, errmsg, fields, origin, taskFlags, step, box, outcome, processed,
                 prev, boundBox, taskOrder, rebound, resetSeen, lastRead, cycle, wrapper>>

\* GridVessel::getGridElement as the analysis action sees it: the sum of the
\* cell, divided by the normalisation unless that is zero (in ticks of 10^-3)
getGridElement(g, c) ==
  LET sum == IF c \in DOMAIN g.data THEN g.data[c] ELSE 0
  IN IF g.norm = 0 THEN 1000 * sum ELSE (1000 * sum) \div g.norm

\* a read that, under the memoryless policy, signals the reset itself
gridAfterRead_resets(g) == IF g.nomemory THEN [ g EXCEPT !.wascleared = TRUE ] ELSE g

\* the vessel after one of its cells was read
gridAfterRead(g) == g

\* the analysis action reads the first or the last cell of the grid
read ==
  /\ phase = "constructed"
  /\ mygrid.bounds_set
  /\ \E c \in { [ i \in 1..Len(directions) |-> 0 ],
                [ i \in 1..Len(directions) |-> mygrid.nbin[i] - 1 ] } :
       lastRead' = [ cell |-> c, value |-> getGridElement(mygrid, c) ]
  /\ mygrid' = gridAfterRead(mygrid)
  /\ UNCHANGED <<cfg, phase, errmsg, fields, origin, taskFlags, step, box, outcome,
                 processed, resetAfterBind, prev, boundBox, history, wrapper>>

Next == Construct \/ setAnalysisStride \/ update \/ reset

Spec == Init /\ [][Next]_vars

\* one-axis runs under either memory policy, read by an analysis action, the
\* tasks of a frame finishing in any order: input lines without FRACTIONAL and
\* with a spacing of half a length unit
MemConfigs ==
  { c \in AllConfigs :
      /\ c.DIR = "x"
      /\ ~c.FRACTIONAL
      /\ c.NBINS = <<>>
      /\ Len(c.SPACING) = Len(AxesOf(c.DIR))
      /\ \A a \in 1..3 : c.REDUCED[a] => (c.LOWER[a] = 0 /\ c.UPPER[a] = 1000) }

InitMem ==
  /\ \E c \in MemConfigs : cfg = [ c EXCEPT !.SPACING = <<500>> ]
  /\ Unconstructed
  /\ WrapperIdle

NextMem == Construct \/ updateAnyOrder \/ reset \/ read

SpecMem == InitMem /\ [][NextMem]_vars

\* ------------------------------------------- update, statement by statement
\* The body of update() after the test of line 292, one stage per group of
\* statements.

\* the stages with the origin read moved behind the task run
StageOrder_originLast == <<"bind", "select", "norm", "run", "origin">>

\* the same with the bind or box check moved behind the normalisation
StageOrder_bindAfterNorm == <<"select", "origin", "norm", "bind", "run">>

\* lines 294-320, 322-324, 326, 327, 328
StageOrder == <<"bind", "select", "origin", "norm", "run">>

\* the stage that follows stage s; after the last one update() returns
stageAfter(s) ==
  LET i == CHOOSE k \in 1..Len(StageOrder) : StageOrder[k] = s
  IN IF i = Len(StageOrder) THEN "return" ELSE StageOrder[i + 1]

\* stage s of the running frame is finished
advance(c, s) == [ c EXCEPT !.at = stageAfter(s), !.log = Append(@, s) ]

\* a selection that leaves the flags of the previous frame standing
deactivateAllTasks_keeps(flags) == flags

\* line 322
deactivateAllTasks(flags) == [ i \in DOMAIN flags |-> 0 ]

\* lines 322-323: all flags down, then one up per stored value
selectedFlags(flags, n) ==
  [ i \in DOMAIN flags |-> IF i <= n THEN 1 ELSE deactivateAllTasks(flags)[i] ]

\* the positions the origin atom takes in a run that moves it
StepOrigins == { <<500, 500, 500>>, <<0, 0, 0>> }

\* the cells of such a run: one or two length units wide, or sheared
StepBoxes == MemBoxes \cup { b \in Boxes : ~b.ortho }

\* update() is called with the cell, the origin atom and the stored values of
\* the step (line 292)
startUpdate ==
  /\ phase = "constructed"
  /\ cycle.at = "idle"
  /\ step <= MaxStep
  /\ \E b \in StepBoxes, o \in StepOrigins, n \in StoredCounts :
       /\ box' = b
       /\ IF skipUpdate(single_run, step)
            THEN /\ outcome' = "skipped"
                 /\ UNCHANGED cycle
            ELSE /\ outcome' = "running"
                 /\ cycle' = [ at |-> StageOrder[1], o |-> o, n |-> n, next |-> 1,
                               was |-> taskFlags, from |-> origin, log |-> <<>>,
                               merged |-> <<>> ]
  /\ step' = step + 1
  /\ prev' = mygrid
  /\ resetSeen' = resetPending
  /\ rebound' = FALSE
  /\ lastRead' = NoRead
  /\ UNCHANGED <<cfg, phase, errmsg, fields, origin, taskFlags, mygrid, processed,
                 resetAfterBind, boundBox, tally, taskOrder, resetPending, wrapper>>

\* the error() calls of lines 300 and 318 and the refusal of the vessel end the run
failFrame(msg, g) ==
  /\ phase' = "aborted"
  /\ errmsg' = msg
  /\ outcome' = "failed"
  /\ mygrid' = g
  /\ cycle' = [ cycle EXCEPT !.at = "idle" ]
  /\ UNCHANGED <<rebound, boundBox>>

\* lines 294-320: bind the cleared grid to the cell, or check the cell against
\* the bound grid
bindOrCheck ==
  /\ cycle.at = "bind"
  /\ IF needsBind(mygrid)
       THEN IF nonOrthoRejected(fractional, box)
              THEN failFrame(NonOrthoError, mygrid)
            ELSE IF degenerateRange(gminOf(box), gmaxOf(box))
              THEN failFrame(DegenerateError, clear(mygrid))
            ELSE /\ mygrid' = rebind(mygrid, box)
                 /\ rebound' = TRUE
                 /\ boundBox' = box
                 /\ cycle' = advance(cycle, "bind")
                 /\ UNCHANGED <<phase, errmsg, outcome>>
     ELSE IF boxSizeChanged(mygrid, directions, box)
       THEN failFrame(BoxSizeError, mygrid)
     ELSE /\ cycle' = advance(cycle, "bind")
          /\ UNCHANGED <<phase, errmsg, outcome, mygrid, rebound, boundBox>>
  /\ UNCHANGED <<cfg, fields, origin, taskFlags, step, box, processed, resetAfterBind, prev,
                 tally, taskOrder, resetPending, resetSeen, lastRead, wrapper>>

\* lines 322-324
selectTasks ==
  /\ cycle.at = "select"
  /\ taskFlags' = selectedFlags(taskFlags, cycle.n)
  /\ cycle' = advance(cycle, "select")
  /\ UNCHANGED <<cfg, phase, errmsg, fields, origin, mygrid, step, box, outcome, processed,
                 resetAfterBind, prev, boundBox, tally, taskOrder, rebound, resetPending,
                 resetSeen, lastRead, wrapper>>

\* line 326
readOrigin ==
  /\ cycle.at = "origin"
  /\ origin' = cycle.o
  /\ cycle' = advance(cycle, "origin")
  /\ UNCHANGED <<cfg, phase, errmsg, fields, taskFlags, mygrid, step, box, outcome,
                 processed, resetAfterBind, prev, boundBox, tally, taskOrder, rebound,
                 resetPending, resetSeen, lastRead, wrapper>>

\* line 327
raiseNorm ==
  /\ cycle.at = "norm"
  /\ mygrid' = [ mygrid EXCEPT !.norm = normAfter(cfg.density, mygrid) ]
  /\ cycle' = advance(cycle, "norm")
  /\ UNCHANGED <<cfg, phase, errmsg, fields, origin, taskFlags, step, box, outcome,
                 processed, resetAfterBind, prev, boundBox, tally, taskOrder, rebound,
                 resetPending, resetSeen, lastRead, wrapper>>

\* line 328, one entry of the task list at a time: an active task is mapped
\* with the origin the action holds and merged into the vessel
runTask ==
  /\ cycle.at = "run"
  /\ LET k == cycle.next
         active == taskFlags[k] = 1
         c == [ cycle EXCEPT !.next = k + 1,
                             !.merged = IF active
                                          THEN Append(@, [ task |-> k, origin |-> origin,
                                                           after |-> cycle.log ])
                                          ELSE @ ]
     IN /\ mygrid' = IF active THEN accumulate(mygrid, performTask(box, origin, k))
                     ELSE mygrid
        /\ cycle' = IF k = NumTasks THEN advance(c, "run") ELSE c
  /\ UNCHANGED <<cfg, phase, errmsg, fields, origin, taskFlags, step, box, outcome,
                 processed, resetAfterBind, prev, boundBox, tally, taskOrder, rebound,
                 resetPending, resetSeen, lastRead, wrapper>>

\* line 329: the frame is complete
returnFromUpdate ==
  /\ cycle.at = "return"
  /\ outcome' = "processed"
  /\ processed' = processed + 1
  /\ tally' = tallyAfter(tally, mygrid, box, cycle.o, cycle.n)
  /\ taskOrder' = TaskIndexOrder(cycle.n)
  /\ resetPending' = FALSE
  /\ cycle' = [ cycle EXCEPT !.at = "idle" ]
  /\ UNCHANGED <<cfg, phase, errmsg, fields, origin, taskFlags, mygrid, step, box,
                 resetAfterBind, prev, boundBox, rebound, resetSeen, lastRead, wrapper>>

NextSteps ==
  \/ Construct \/ startUpdate \/ bindOrCheck \/ selectTasks \/ readOrigin \/ raiseNorm
  \/ runTask \/ returnFromUpdate \/ reset

SpecSteps == InitMem /\ [][NextSteps]_vars

\* ----------------------------------------------------------------- wrapper
\* The C, C++ and Fortran interfaces to a PLUMED object, as the wrapper test
\* (regtest/basic/rt-make-wrappers/main.cpp) drives them.  A handle is a slot of
\* the client; an object keeps a use count and dies with its last handle.
Interfaces == {"c", "cpp", "f"}

gridVars == <<cfg, phase, errmsg, fields, origin, taskFlags, mygrid, step, box, outcome,
              processed, resetAfterBind, prev, boundBox, history, lastRead>>

freeHandles == { h \in 1..MaxHandles : handles[h].obj = 0 }
liveHandles == { h \in 1..MaxHandles : handles[h].obj # 0 }
handlesOf(o) == { h \in 1..MaxHandles : handles[h].obj = o }

\* the use count plumed_use_count reports for a new object
refsAfterCreate == 1

\* a reference that is handed out without being counted
refsAfterReference_same(n) == n

\* plumed_create_reference, copy construction, conversion between interfaces
refsAfterReference(n) == n + 1

\* plumed_finalize, destruction of a C++ handle
refsAfterFinalize(n) == n - 1

\* a finalize that destroys the object whoever else refers to it
destroyedByFinalize_always(n) == TRUE

\* the object is destroyed when its last handle goes
destroyedByFinalize(n) == refsAfterFinalize(n) = 0

\* a wrapper in which finalizing any handle also drops the global instance
ginitializedAfter_anyFinalize(op, was) ==
  CASE op = "gcreate" -> TRUE
    [] op \in {"gfinalize", "finalize"} -> FALSE
    [] OTHER -> was

\* plumed_ginitialized after a call
ginitializedAfter(op, was) ==
  CASE op = "gcreate" -> TRUE
    [] op = "gfinalize" -> FALSE
    [] OTHER -> was

\* plumed_create, PLMD::Plumed(), plumed_f_create
plumed_create ==
  /\ \E h \in freeHandles, o \in { x \in 1..MaxObjects : ~plumedObjs[x].alive },
        lang \in Interfaces :
       /\ plumedObjs' = [ plumedObjs EXCEPT ![o] = [ alive |-> TRUE, refs |-> refsAfterCreate ] ]
       /\ handles' = [ handles EXCEPT ![h] = [ obj |-> o, made |-> "create" ] ]
       /\ lastOp' = [ name |-> "create", lang |-> lang, result |-> refsAfterCreate ]
  /\ ginitialized' = ginitializedAfter("create", ginitialized)
  /\ UNCHANGED <<gridVars, gcreates, gfinalizes>>

\* plumed_create_reference, copy of a PLMD::Plumed, plumed_f_create_reference,
\* and PLMD::Plumed constructed from a C or Fortran handle
plumed_create_reference ==
  /\ \E p \in liveHandles, q \in freeHandles, lang \in Interfaces :
       LET o == handles[p].obj
           n == refsAfterReference(plumedObjs[o].refs)
       IN /\ plumedObjs' = [ plumedObjs EXCEPT ![o].refs = n ]
          /\ handles' = [ handles EXCEPT ![q] = [ obj |-> o, made |-> "reference" ] ]
          /\ lastOp' = [ name |-> "create_reference", lang |-> lang, result |-> n ]
  /\ ginitialized' = ginitializedAfter("create_reference", ginitialized)
  /\ UNCHANGED <<gridVars, gcreates, gfinalizes>>

\* plumed_finalize, plumed_f_finalize, the end of a PLMD::Plumed
plumed_finalize ==
  /\ \E h \in liveHandles, lang \in Interfaces :
       LET o == handles[h].obj
           n == plumedObjs[o].refs
       IN /\ plumedObjs' = [ plumedObjs EXCEPT
                               ![o] = IF destroyedByFinalize(n) THEN NoObject
                                      ELSE [ alive |-> TRUE, refs |-> refsAfterFinalize(n) ] ]
          /\ handles' = [ handles EXCEPT ![h] = NoHandle ]
          /\ lastOp' = [ name |-> "finalize", lang |-> lang, result |-> refsAfterFinalize(n) ]
  /\ ginitialized' = ginitializedAfter("finalize", ginitialized)
  /\ UNCHANGED <<gridVars, gcreates, gfinalizes>>

\* plumed_cmd through a handle: 1 if the object took the command
plumed_cmd ==
  /\ \E h \in liveHandles, lang \in Interfaces :
       lastOp' = [ name |-> "cmd", lang |-> lang,
                   result |-> IF plumedObjs[handles[h].obj].alive THEN 1 ELSE 0 ]
  /\ ginitialized' = ginitializedAfter("cmd", ginitialized)
  /\ UNCHANGED <<gridVars, plumedObjs, handles, gcreates, gfinalizes>>

\* plumed_gcreate
plumed_gcreate ==
  /\ ~ginitialized
  /\ gcreates < MaxGlobalCycles
  /\ ginitialized' = ginitializedAfter("gcreate", ginitialized)
  /\ gcreates' = gcreates + 1
  /\ \E lang \in Interfaces : lastOp' = [ name |-> "gcreate", lang |-> lang, result |-> 0 ]
  /\ UNCHANGED <<gridVars, plumedObjs, handles, gfinalizes>>

\* plumed_gcmd, plumed_cmd on plumed_global()
plumed_gcmd ==
  /\ ginitialized
  /\ \E lang \in Interfaces : lastOp' = [ name |-> "gcmd", lang |-> lang, result |-> 1 ]
  /\ UNCHANGED <<gridVars, plumedObjs, handles, ginitialized, gcreates, gfinalizes>>

\* plumed_gfinalize
plumed_gfinalize ==
  /\ ginitialized
  /\ ginitialized' = ginitializedAfter("gfinalize", ginitialized)
  /\ gfinalizes' = gfinalizes + 1
  /\ \E lang \in Interfaces : lastOp' = [ name |-> "gfinalize", lang |-> lang, result |-> 0 ]
  /\ UNCHANGED <<gridVars, plumedObjs, handles, gcreates>>

InitWrapper ==
  /\ cfg = CHOOSE c \in Configs : TRUE
  /\ Unconstructed
  /\ WrapperIdle

NextWrapper ==
  \/ plumed_create \/ plumed_create_reference \/ plumed_finalize \/ plumed_cmd
  \/ plumed_gcreate \/ plumed_gcmd \/ plumed_gfinalize

SpecWrapper == InitWrapper /\ [][NextWrapper]_vars

\* setup alone, over every input line
InitSetup ==
  /\ cfg \in AllConfigs
  /\ Unconstructed
  /\ WrapperIdle

NextSetup == Construct

SpecSetup == InitSetup /\ [][NextSetup]_vars

\* ------------------------------------------------------------------ claims
Constructed == phase \in {"constructed", "aborted"}
Axes == 1..Len(directions)
\* the latest update cycle was not skipped and found the grid bound, no reset signalled
FrameOnBoundGrid ==
  outcome \in {"processed", "failed"} /\ prev.bounds_set /\ ~prev.wascleared
\* the cell extent along axis i at the latest update cycle / at the last bind
Extent(i) == box.d[directions[i] + 1]
BoundExtent(i) == boundBox.d[directions[i] + 1]

\* C1: in density mode, while no reset was signalled after the first bind, the
\* normalisation equals the number of frames processed so far
C1_NormCountsFrames ==
  (Constructed /\ cfg.density /\ ~resetAfterBind) => mygrid.norm = processed

\* C1 witness: two frames processed without reset, the second holding no particle
C1_Witness ==
  /\ cfg.density /\ ~resetAfterBind /\ processed = 2 /\ outcome = "processed"
  /\ taskFlags = [ i \in 1..NumTasks |-> 0 ]

\* C2: on a bound grid a frame fails with the box-size error if the extent of a
\* non-confined axis differs from the extent the grid was bound with, and is
\* processed if every such extent matches
C2_BoxCheckOnFreeAxes ==
  FrameOnBoundGrid =>
    /\ (\E i \in Axes : ~confined[i] /\ Extent(i) # BoundExtent(i))
          => (outcome = "failed" /\ errmsg = BoxSizeError)
    /\ (\A i \in Axes : ~confined[i] => Extent(i) = BoundExtent(i))
          => outcome = "processed"

\* C3: the box-size error is raised only in non-fractional mode and only
\* because of the extent of a non-confined axis
C3_BoxErrorOnlyFreeAxes ==
  (outcome = "failed" /\ errmsg = BoxSizeError) =>
    /\ ~fractional
    /\ \E i \in Axes : ~confined[i] /\ boxCheckFails(prev, directions, box, i)

\* C4: in fractional mode no frame is bound or accumulated while the cell is
\* non-orthorhombic
C4_FractionalNeedsOrtho ==
  (outcome = "processed" /\ fractional) => box.ortho

\* C5: in non-fractional mode a frame whose cell is non-orthorhombic is fatal,
\* whether the grid was bound before it or not, and accumulates nothing
C5_NonOrthoAlwaysRejected ==
  (outcome \in {"processed", "failed"} /\ ~fractional /\ ~box.ortho) =>
    (outcome = "failed" /\ mygrid.data = prev.data /\ mygrid.norm = prev.norm)

\* C6: while the grid is bound and no reset is signalled, no step changes its
\* axis bounds or its bin counts
C6_LayoutFixed ==
  [][ (mygrid.bounds_set /\ ~mygrid.wascleared) =>
        /\ mygrid'.str_min = mygrid.str_min
        /\ mygrid'.str_max = mygrid.str_max
        /\ mygrid'.nbin = mygrid.nbin ]_vars

\* C6 witness: a second frame processed on the grid the first one bound, in
\* another cell than the one bound with
C6_Witness ==
  /\ outcome = "processed" /\ processed = 2 /\ prev.bounds_set /\ ~prev.wascleared
  /\ box # boundBox

\* C7 as claimed: a cycle is skipped exactly when the run is a single aggregate
\* run and the step is 0
C7_SkipWhenSingleRun ==
  outcome # "none" => ((outcome = "skipped") <=> (single_run /\ step - 1 = 0))

\* C7 amended: a cycle is skipped exactly when sub-windowing is configured
\* (single_run false) and the step is 0
C7_SkipWhenWindowed ==
  outcome # "none" => ((outcome = "skipped") <=> (~single_run /\ step - 1 = 0))

\* C7 witness: the step-0 cycle of a windowed run was skipped
C7_Witness == outcome = "skipped" /\ ~single_run /\ step = 1

\* C8: an input line with FRACTIONAL and a confined configured axis fails at
\* setup, before the grid exists, so no frame runs with both
C8_FractionalExcludesConfined ==
  /\ (phase # "parsed" /\ cfg.DIR \in ValidDirs /\ cfg.FRACTIONAL
        /\ (\E a \in Range(AxesOf(cfg.DIR)) : cfg.REDUCED[a + 1]))
       => (phase = "failed" /\ ~mygrid.created)
  /\ Constructed => ~(fractional /\ \E i \in Axes : confined[i])

\* C8 witness: setup stopped on the FRACTIONAL test of a confined axis
C8_Witness ==
  /\ phase = "failed" /\ errmsg = "REDUCED is incompatible with FRACTIONAL"
  /\ cfg.FRACTIONAL /\ ~mygrid.created

\* C9: setup fails when neither NBINS nor SPACING is given, and passes line 213
\* only if one of the two lists has one entry per configured axis
C9_BinsOrSpacing ==
  /\ (phase # "parsed" /\ Len(cfg.NBINS) = 0 /\ Len(cfg.SPACING) = 0) => phase = "failed"
  /\ Constructed => (Len(nbins) = Len(directions) \/ Len(gspacing) = Len(directions))
  /\ (phase = "failed" /\ errmsg # "is not valid gradient direction"
        /\ errmsg # "NBINS or SPACING must be set")
       => (Len(cfg.NBINS) = Len(AxesOf(cfg.DIR)) \/ Len(cfg.SPACING) = Len(AxesOf(cfg.DIR)))

\* C9 witness: setup stopped at line 213 with lists of the wrong length
C9_Witness ==
  /\ phase = "failed" /\ errmsg = "NBINS or SPACING must be set"
  /\ Len(cfg.NBINS) > 0 /\ Len(cfg.SPACING) > 0

activeCount == Cardinality({ i \in 1..Len(taskFlags) : taskFlags[i] = 1 })

\* C11: under the memoryless policy a frame processed after a reset leaves the
\* grid with the cell sums, normalisation and bounds that the first frame of a
\* cumulative run fed the same frame has: nothing from before the reset survives
C11_ResetForgets ==
  (nomemory /\ outcome = "processed" /\ rebound /\ prev.bounds_set) =>
    LET first == frameOn(rebind(NewGrid(confined, FALSE), box), box, origin, activeCount,
                         taskOrder)
    IN /\ mygrid.data = first.data
       /\ mygrid.norm = first.norm
       /\ mygrid.str_min = first.str_min /\ mygrid.str_max = first.str_max
       /\ mygrid.nbin = first.nbin

\* C11 witness: a memoryless run whose grid held sums and a norm when the reset
\* came, and a frame with particles processed after it
C11_Witness ==
  /\ nomemory /\ outcome = "processed" /\ rebound /\ prev.bounds_set
  /\ prev.data # <<>> /\ prev.norm > 0 /\ activeCount >= 1

\* C12: under the cumulative policy, while no reset was signalled, every cell
\* sum is the total of the contributions of every task of every processed frame,
\* and in density mode the normalisation is the number of processed frames
C12_NothingDroppedOrDoubled ==
  (~nomemory /\ ~resetAfterBind) =>
    /\ mygrid.data = tally
    /\ cfg.density => mygrid.norm = processed

\* C12 witness: a second frame with particles processed on a grid that already
\* held sums, no reset in between
C12_Witness ==
  /\ ~nomemory /\ ~resetAfterBind /\ phase = "constructed" /\ outcome = "processed"
  /\ processed >= 2 /\ prev.data # <<>> /\ activeCount >= 1

rawDisplacement(k, i) == centralAtomPos(k)[directions[i] + 1] - origin[directions[i] + 1]

JustBelowLower(k, i) ==
  LET lo == convertToDouble(mygrid.str_min[i])
      hi == convertToDouble(mygrid.str_max[i])
      d == rawDisplacement(k, i)
  IN ~fractional /\ d < lo /\ (lo - d) * mygrid.nbin[i] <= hi - lo

RECURSIVE SumOver(_, _)
SumOver(f, cells) ==
  IF cells = {} THEN 0
  ELSE LET c == CHOOSE x \in cells : TRUE IN f[c] + SumOver(f, cells \ {c})

\* C14: on a grid whose axes are all free, bound by the frame, a task that lies
\* just below the lower bound of an axis puts weight into cells of the first and
\* of the last index of that axis, and the frame deposits the full kernel weight
\* of each of its tasks, as it does for tasks in the interior
C14_WrapKeepsWeight ==
  (outcome = "processed" /\ rebound /\ \A i \in Axes : ~confined[i]) =>
    /\ SumOver(mygrid.data, DOMAIN mygrid.data) = activeCount * kernelTotal(Len(directions))
    /\ \A k \in 1..activeCount : \A i \in Axes :
         JustBelowLower(k, i) =>
           /\ \E c \in DOMAIN mygrid.data : c[i] = 0 /\ mygrid.data[c] > 0
           /\ \E c \in DOMAIN mygrid.data : c[i] = mygrid.nbin[i] - 1 /\ mygrid.data[c] > 0

\* C14 witness: the only task of a frame lies just below the lower bound of a
\* free axis of three or more bins
C14_Witness ==
  /\ outcome = "processed" /\ rebound /\ activeCount = 1
  /\ \A i \in Axes : ~confined[i]
  /\ \E i \in Axes : JustBelowLower(1, i) /\ mygrid.nbin[i] >= 3

C20_BindExactlyWhenDue ==
  /\ outcome = "processed" => (rebound <=> (processed = 1 \/ resetSeen))
  /\ (processed >= 1 \/ mygrid.data # <<>>) => mygrid.bounds_set
  /\ (outcome = "processed" /\ ~rebound) =>
       /\ mygrid.str_min = prev.str_min /\ mygrid.str_max = prev.str_max
       /\ mygrid.nbin = prev.nbin
       /\ mygrid.norm >= prev.norm
       /\ \A c \in DOMAIN prev.data :
            c \in DOMAIN mygrid.data /\ mygrid.data[c] >= prev.data[c]

\* C20 witness: a later frame that found a reset signalled and bound the grid
\* again, after a frame that did not
C20_Witness ==
  /\ outcome = "processed" /\ rebound /\ resetSeen /\ processed = 3

\* C16: the use count of every object is the number of handles that refer to
\* it, whatever interface made or dropped them, and a new object reports 1
C16_UseCountIsHandles ==
  /\ \A o \in 1..MaxObjects : plumedObjs[o].refs = Cardinality(handlesOf(o))
  /\ lastOp.name = "create" => lastOp.result = 1

\* C16 witness: an object with its creating handle and two references; the
\* latest of them came through the Fortran interface and reported 3
C16_Witness ==
  /\ \E o \in 1..MaxObjects : plumedObjs[o].refs = 3 /\ Cardinality(handlesOf(o)) = 3
  /\ lastOp = [ name |-> "create_reference", lang |-> "f", result |-> 3 ]

\* C17: an object is alive as long as a handle refers to it, and a command
\* through a handle is taken
C17_AliveWhileReferenced ==
  /\ \A h \in liveHandles : plumedObjs[handles[h].obj].alive
  /\ lastOp.name = "cmd" => lastOp.result = 1

\* C17 witness: the creating handle of an object was finalized, a reference is
\* the only handle left, and the use count it reports is 1
C17_Witness ==
  /\ lastOp.name = "finalize" /\ lastOp.result = 1
  /\ \E h \in liveHandles :
       /\ handles[h].made = "reference"
       /\ handlesOf(handles[h].obj) = {h}
       /\ plumedObjs[handles[h].obj] = [ alive |-> TRUE, refs |-> 1 ]

\* C18: the global instance reports initialized exactly after a gcreate that
\* no gfinalize has matched yet, and no call other than gcreate and gfinalize
\* changes what it reports
C18_GlobalFlag ==
  /\ [](ginitialized <=> gcreates = gfinalizes + 1)
  /\ [](~ginitialized <=> gcreates = gfinalizes)
  /\ [][ (gcreates' = gcreates /\ gfinalizes' = gfinalizes)
            => ginitialized' = ginitialized ]_vars

\* C18 witness: the global instance was created a second time, after ordinary
\* handles were made and dropped next to it
C18_Witness ==
  /\ ginitialized /\ gcreates = 2 /\ gfinalizes = 1
  /\ lastOp.name = "finalize" /\ liveHandles # {}

\* C21: in every frame update() works on, the stages finish in the order bind
\* or box check, task selection, origin read, normalisation, task run; every
\* particle merged into the grid was mapped after the first four had finished
\* and with the origin read in that frame; while particles of the frame are
\* being merged the grid is bound and not cleared, the flags are those of the
\* frame's stored values and, in density mode, the normalisation is already one
\* above what the bind or check left; the cell sums of a processed frame are
\* those of its particles mapped with its origin
C21_StagesInOrder ==
  /\ cycle.log = SubSeq(<<"bind", "select", "origin", "norm", "run">>, 1, Len(cycle.log))
  /\ \A e \in Range(cycle.merged) :
       e.after = <<"bind", "select", "origin", "norm">> /\ e.origin = cycle.o
  /\ (cycle.at \in {"run", "return"} /\ cycle.merged # <<>>) =>
       /\ mygrid.bounds_set /\ ~mygrid.wascleared
       /\ taskFlags = activeFlags(cycle.n)
       /\ origin = cycle.o
       /\ cfg.density => mygrid.norm = (IF rebound THEN 0 ELSE prev.norm) + 1
  /\ (outcome = "processed" /\ ~resetPending) => mygrid.data = tally

\* C21 witness: a later frame of a density run, complete, whose particles were
\* merged after the origin atom had moved since the frame before
C21_Witness ==
  /\ cfg.density /\ outcome = "processed" /\ processed >= 2
  /\ Len(cycle.merged) >= 1 /\ cycle.from # cycle.o /\ cycle.log[Len(cycle.log)] = "run"

\* C22: once a frame with n stored values has selected its tasks, exactly the
\* first n entries of the task list are active, whatever the flags were before;
\* when its task run is over exactly these n tasks were merged, each once, and
\* the cell sums it leaves are those of the n stored values
C22_ActiveAreTheStored ==
  /\ (outcome \in {"running", "processed"} /\ "select" \in Range(cycle.log)) =>
       \A i \in 1..NumTasks : taskFlags[i] = 1 <=> i <= cycle.n
  /\ "run" \in Range(cycle.log) =>
       [ k \in 1..Len(cycle.merged) |-> cycle.merged[k].task ] = [ k \in 1..cycle.n |-> k ]
  /\ \A j, k \in 1..Len(cycle.merged) :
       cycle.merged[j].task = cycle.merged[k].task => j = k
  /\ (outcome = "processed" /\ ~resetPending /\ processed = 1) =>
       mygrid.data = tallyAfter(<<>>, mygrid, box, origin, cycle.n)

\* C22 witness: a complete frame with one stored value that found the flags of
\* two tasks up from the frame before
C22_Witness ==
  /\ outcome = "processed" /\ processed >= 2 /\ cycle.n = 1
  /\ cycle.was = [ i \in 1..NumTasks |-> 1 ] /\ Len(cycle.merged) = 1 /\ taskFlags[NumTasks] = 0

\* C23: a frame that fails with the non-orthorhombic or the box-size error
\* leaves the vessel (cell sums, normalisation, bounds, bin counts) as it found
\* it, having finished no stage and merged no particle; once a run has failed
\* the failing frame stays its latest update cycle and update() is not running
C23_FailedFrameChangesNothing ==
  /\ (outcome = "failed" /\ errmsg \in {NonOrthoError, BoxSizeError}) =>
       /\ mygrid = prev
       /\ cycle.log = <<>> /\ cycle.merged = <<>>
  /\ phase = "aborted" => (outcome = "failed" /\ cycle.at = "idle")

\* C23 witness: a frame that failed with the box-size error on a grid that
\* held sums and a normalisation
C23_Witness ==
  /\ phase = "aborted" /\ outcome = "failed" /\ errmsg = BoxSizeError
  /\ prev.data # <<>> /\ prev.norm > 0 /\ processed >= 1

\* C24: from setup on, the vessel has one periodic flag per configured axis, in
\* the order of the axes, and the flag of an axis is true exactly if the input
\* line does not confine that axis; binding, frames, failures and resets leave
\* the flags as they are
C24_PeriodicIsNotConfined ==
  Constructed =>
    /\ mygrid.created
    /\ Len(mygrid.periodic) = Len(directions) /\ Len(confined) = Len(directions)
    /\ \A i \in Axes :
         /\ confined[i] = cfg.REDUCED[directions[i] + 1]
         /\ mygrid.periodic[i] = ~cfg.REDUCED[directions[i] + 1]

\* C24 witness: a run over y and z with y confined and z free, after two
\* processed frames and a reset
C24_Witness ==
  /\ directions = <<1, 2>> /\ confined = <<TRUE, FALSE>>
  /\ mygrid.periodic = <<FALSE, TRUE>>
  /\ processed >= 2 /\ resetAfterBind /\ mygrid.bounds_set

\* C25: a direction string other than x, y, z, xy, xz, yz, xyz stops the setup
\* with the direction error and none of these seven does; after a completed
\* setup the stored axes are the axes the string names, x before y before z,
\* one to three of them, and for every cell, origin and particle the values
\* handed to the vessel are the value, the displacement components of these
\* axes in that order, and the weight
C25_AxesAsNamed ==
  LET named == CASE cfg.DIR = "x" -> {0}
                 [] cfg.DIR = "y" -> {1}
                 [] cfg.DIR = "z" -> {2}
                 [] cfg.DIR = "xy" -> {0, 1}
                 [] cfg.DIR = "xz" -> {0, 2}
                 [] cfg.DIR = "yz" -> {1, 2}
                 [] cfg.DIR = "xyz" -> {0, 1, 2}
                 [] OTHER -> {}
      inOrder == [ j \in 1..Cardinality(named) |->
                     CHOOSE a \in named : Cardinality({ b \in named : b < a }) = j - 1 ]
  IN /\ (phase # "parsed" /\ named = {}) =>
          (phase = "failed" /\ errmsg = "is not valid gradient direction")
     /\ (phase = "failed" /\ errmsg = "is not valid gradient direction") => named = {}
     /\ phase = "constructed" =>
          /\ directions = inOrder
          /\ Len(directions) \in 1..3
          /\ Len(mygrid.periodic) = Len(directions)
          /\ \A b \in Boxes, o \in StepOrigins, k \in 1..NumTasks :
               LET apos == pbcDistance(b, o, centralAtomPos(k))
                   d == IF cfg.FRACTIONAL THEN realToScaled(b, apos) ELSE apos
                   myvals == performTask(b, o, k)
               IN /\ Len(myvals) = getNumberOfQuantities
                  /\ SubSeq(myvals, 2, Len(myvals) - 1)
                       = [ j \in 1..Len(inOrder) |-> d[inOrder[j] + 1] ]

\* C25 witness: a completed fractional setup along x and z
C25_Witness ==
  /\ phase = "constructed" /\ cfg.DIR = "xz" /\ directions = <<0, 2>> /\ fractional
  /\ getNumberOfQuantities = 4

\* C26: in average mode update() leaves the normalisation of the vessel at the
\* zero it was created and cleared with; in either mode a frame that reaches
\* its end leaves the flags of its stored values, its own origin, and the vessel
\* that the bind or check left with every stored value merged in index order,
\* the normalisation one higher in density mode and as it was in average mode
C26_ModesDifferByNormOnly ==
  /\ (Constructed /\ ~cfg.density) => mygrid.norm = 0
  /\ cycle.at = "return" =>
       LET base == IF rebound THEN rebind(prev, box) ELSE prev
           plus == IF cfg.density THEN 1 ELSE 0
       IN /\ taskFlags = activeFlags(cycle.n)
          /\ origin = cycle.o
          /\ mygrid = runAllTasks([ base EXCEPT !.norm = @ + plus ], activeFlags(cycle.n), box,
                                  cycle.o, TaskIndexOrder(cycle.n), 1)

\* C26 witness: an average-mode frame at its end, with particles merged onto a
\* grid that held sums from an earlier frame
C26_Witness ==
  /\ ~cfg.density /\ cycle.at = "return" /\ processed >= 1
  /\ Len(cycle.merged) >= 1 /\ prev.data # <<>> /\ ~rebound

====
